---- MODULE Spec2Model ----
(***************************************************************************)
(* elb2loggly (src/app.py): S3 "object created" notifications arrive at    *)
(* the /sns handler, which puts one Task per created object on a queue;    *)
(* a lazily started worker thread takes the tasks, downloads each ELB log  *)
(* file, renders its rows, uploads them to Loggly in size-bounded batches  *)
(* and re-enqueues a failed task with exponential backoff.                 *)
(***************************************************************************)
EXTENDS Integers, Sequences, FiniteSets

(***************************************************************************)
(* Bounds of the model.                                                    *)
(***************************************************************************)
\* number of /sns requests that arrive
MaxRequests == 2
\* requests plus tasks put on the queue over a run (bounds the payloads
\* drawn: two requests with one task, or one request with two)
MaxLoad == 3
\* The retry limit the program runs with when the environment sets none.
\* The source's default is 15; the model runs the same code with a smaller
\* limit so that a job's whole life (first try to abandonment) is explored;
\* it is large enough for the last backoff (2^4 seconds) to outlast the
\* worker's pause, so that a lone worker meets a job that is not yet due.
DefaultMaxTries == 4
\* number of records in a notification
MaxRecords == 2
\* The batch ceiling LOGGLY_MAX_SIZE (4 MiB unless the environment sets it),
\* in the model's unit of line length.
DefaultMaxSize == 3
\* rows of a log file, where the file is drawn rather than fixed
MaxRows == 3

(***************************************************************************)
(* Program constants.                                                      *)
(***************************************************************************)
\* time.sleep(10)
SLEEP_SECS == 10
\* requests.codes.ok
CODES_OK == 200
\* row['elb_status_code'] < 500
ERROR_STATUS == 500

(***************************************************************************)
(* Python values: None, a str (its characters) or an int.                  *)
(***************************************************************************)
NoneV == [t |-> "none", s |-> <<>>, n |-> 0]
StrV(chars) == [t |-> "str", s |-> chars, n |-> 0]
IntV(k) == [t |-> "int", s |-> <<>>, n |-> k]

Digits == <<"0", "1", "2", "3", "4", "5", "6", "7", "8", "9">>

IsDigit(c) == \E i \in 1..10 : Digits[i] = c

DigitVal(c) == (CHOOSE i \in 1..10 : Digits[i] = c) - 1

\* the value of a string of digits, most significant first
RECURSIVE DigitsVal(_)
DigitsVal(cs) ==
  IF cs = <<>> THEN 0
  ELSE 10 * DigitsVal(SubSeq(cs, 1, Len(cs) - 1)) + DigitVal(cs[Len(cs)])

AllDigits(cs) == Len(cs) > 0 /\ \A i \in 1..Len(cs) : IsDigit(cs[i])

\* int(x) raises for None, for "", for "-" and for any text that is not an
\* optionally signed run of digits
IntRaises(v) ==
  \/ v.t = "none"
  \/ /\ v.t = "str"
     /\ ~ AllDigits(v.s)
     /\ ~ (Len(v.s) > 1 /\ v.s[1] = "-" /\ AllDigits(Tail(v.s)))

PyInt(v) ==
  IF v.t = "int" THEN v
  ELSE IF v.s[1] = "-" THEN IntV(0 - DigitsVal(Tail(v.s)))
  ELSE IntV(DigitsVal(v.s))

\* try: row[field] = func(row[field]) / except Exception: pass
Coerce(v) == IF IntRaises(v) THEN v ELSE PyInt(v)

(***************************************************************************)
(* Rows of a log file, as csv.DictReader yields them.  A str is the        *)
(* sequence of its characters; len is the length of the line the row       *)
(* renders to (apache_combined_log(row) + json.dumps(row)).                *)
(***************************************************************************)
Row(id, client, request, elb, backend, length) ==
  [id |-> id, client |-> client, request |-> request, timestamp_ok |-> TRUE,
   elb_status_code |-> elb, backend_status_code |-> backend,
   received_bytes |-> StrV(<<"0">>), sent_bytes |-> StrV(<<"5", "7">>),
   len |-> length]

ClientOK == StrV(<<"1", ".", "2", ":", "8", "0">>)
ClientNoPort == StrV(<<"1", ".", "2">>)
RequestOK == StrV(<<"G", "E", "T", " ", "/", "x", " ", "H", "1">>)
S200 == StrV(<<"2", "0", "0">>)
S499 == StrV(<<"4", "9", "9">>)
S500 == StrV(<<"5", "0", "0">>)
S503 == StrV(<<"5", "0", "3">>)
Dash == StrV(<<"-">>)

URLs == {"u1", "u2"}

\* The object each URL names.  u1: a well-formed file (an ELB writes "-" as
\* backend status when no backend answered); u2: a file whose second row
\* has no numeric ELB status and whose last row has no client port.
FileOf(url) ==
  IF url = "u1"
  THEN << Row(1, ClientOK, RequestOK, S200, S200, 2),
          Row(2, ClientOK, RequestOK, S503, Dash, 2),
          Row(3, ClientOK, RequestOK, S500, S500, 1) >>
  ELSE << Row(1, ClientOK, RequestOK, S503, S503, 2),
          Row(2, ClientOK, RequestOK, Dash, S499, 2),
          Row(3, ClientNoPort, RequestOK, S200, S200, 1) >>

\* The rows a drawn file is made of, and the files of up to MaxRows rows
RowKinds ==
  { Row(0, ClientOK, RequestOK, e, Dash, n) :
      e \in {S200, S500, S503, Dash}, n \in {1, 2, 4} }
  \cup { Row(0, ClientNoPort, RequestOK, S200, S200, 1) }

Files ==
  UNION { { [k \in 1..n |-> [f[k] EXCEPT !.id = k]] : f \in [1..n -> RowKinds] } :
            n \in 0..MaxRows }

\* Bodies of responses that are not 200: nothing, or an XML error document,
\* whose first line splits into three fields (the third, "client", without
\* a colon) and leaves the rest None.
XmlRow ==
  [id |-> 1, client |-> StrV(<<"e", "=", "8">>), request |-> NoneV,
   timestamp_ok |-> FALSE, elb_status_code |-> NoneV,
   backend_status_code |-> NoneV, received_bytes |-> NoneV,
   sent_bytes |-> NoneV, len |-> 1]

ErrorBodies == { <<>>, <<XmlRow>> }

GetStatuses == {200, 404}

\* what s3ssion.get(url, timeout=5) can do: raise (network failure,
\* timeout) or return a response
GetOutcomes(file) ==
  { [raised |-> TRUE, status |-> 0, body |-> <<>>] } \cup
  { [raised |-> FALSE, status |-> 200, body |-> file] } \cup
  { [raised |-> FALSE, status |-> st, body |-> b] :
      st \in GetStatuses \ {200}, b \in ErrorBodies }

\* what requests.post(loggly_url, ...) can do: raise, or return a status
PostStatuses == {200, 204, 503}

PostOutcomes ==
  { [raised |-> TRUE, status |-> 0] } \cup
  { [raised |-> FALSE, status |-> st] : st \in PostStatuses }

\* number of pieces of text.split(sep)
RECURSIVE CountSep(_, _)
CountSep(cs, sep) ==
  IF cs = <<>> THEN 0
  ELSE (IF Head(cs) = sep THEN 1 ELSE 0) + CountSep(Tail(cs), sep)

SplitLen(v, sep) == CountSep(v.s, sep) + 1

\* row.pop(field).split(sep) unpacked into k names raises for None
\* (AttributeError) and for any other number of pieces (ValueError)
UnpackRaises(v, sep, k) == v.t # "str" \/ SplitLen(v, sep) # k

\* the four processors applied to the row
ProcessRow(row) ==
  [row EXCEPT !.elb_status_code = Coerce(@),
              !.backend_status_code = Coerce(@),
              !.received_bytes = Coerce(@),
              !.sent_bytes = Coerce(@)]

\* ONLY_ERRORS and row['elb_status_code'] < 500: comparing a str or None
\* with an int raises TypeError
FilterRaises(only_errors, row) == only_errors /\ row.elb_status_code.t # "int"

\* FilterDrops with the comparison <= 500
FilterDropsFiveHundred(only_errors, row) ==
  only_errors /\ row.elb_status_code.t = "int"
              /\ row.elb_status_code.n <= ERROR_STATUS

FilterDrops(only_errors, row) ==
  only_errors /\ row.elb_status_code.t = "int"
              /\ row.elb_status_code.n < ERROR_STATUS

\* the line a row renders to
Render(row) ==
  [id |-> row.id, len |-> row.len,
   elb_status_code |-> row.elb_status_code,
   backend_status_code |-> row.backend_status_code,
   received_bytes |-> row.received_bytes,
   sent_bytes |-> row.sent_bytes]

\* one pass of the loop body for a row, up to the append: the exception it
\* raises (which aborts the file), "skip" (continue) or "append"
RowResult(only_errors, row) ==
  IF \/ UnpackRaises(row.client, ":", 2)
     \/ UnpackRaises(row.request, " ", 3)
  THEN "split_error"
  ELSE IF FilterRaises(only_errors, ProcessRow(row)) THEN "filter_error"
  ELSE IF FilterDrops(only_errors, ProcessRow(row)) THEN "skip"
  ELSE IF ~ row.timestamp_ok THEN "render_error"
  ELSE "append"

\* upload_to_loggly returns normally
UploadOK(resp) == ~ resp.raised /\ resp.status = CODES_OK

\* 2**tries
RECURSIVE Pow2(_)
Pow2(k) == IF k <= 0 THEN 1 ELSE 2 * Pow2(k - 1)

\* datetime.timedelta(seconds=2**tries)
Backoff(tries) == Pow2(tries)

\* tries <= MAX_TRIES raises TypeError when MAX_TRIES is a str
LimitRaises(limit) == limit.t # "int"

\* Requeue allowing one more try
RequeueOnceMore(tries, limit) == tries <= limit.n + 1

Requeue(tries, limit) == tries <= limit.n

(***************************************************************************)
(* /sns notification payloads.                                             *)
(***************************************************************************)
NoKey == "<absent>"

EventNames == {"ObjectCreated:Put", "ObjectRemoved:Delete", NoKey}

\* 'eventName' in record and record['eventName'].startswith('ObjectCreated:')
IsCreation(record) == record.eventName \in {"ObjectCreated:Put"}

\* record['s3']['bucket']['name'], record['s3']['object']['key'] raise
\* KeyError when the record does not hold them
LocationRaises(record) == record.key = NoKey

RecordKinds ==
  { [eventName |-> "ObjectCreated:Put", key |-> u] : u \in URLs \cup {NoKey} }
  \cup { [eventName |-> e, key |-> "u1"] : e \in EventNames \ {"ObjectCreated:Put"} }

\* message['Records']
Payloads == UNION { [1..n -> RecordKinds] : n \in 0..MaxRecords }

RECURSIVE Creations(_)
Creations(records) ==
  IF records = <<>> THEN <<>>
  ELSE IF IsCreation(Head(records)) /\ ~ LocationRaises(Head(records))
       THEN <<Head(records).key>> \o Creations(Tail(records))
       ELSE Creations(Tail(records))

\* datetime.datetime.now(): the present instant, the origin of the time axis
now == 0

(***************************************************************************)
(* State.                                                                  *)
(***************************************************************************)
VARIABLES
  ONLY_ERRORS,      \* configuration, read once at import
  MAX_TRIES,
  LOGGLY_MAX_SIZE,
  q,                \* MyQueue: the Tasks, head first
  worker_thread,    \* the global: 0 (None) or a Thread
  thr,              \* the Thread objects and, once started, worker()'s frame
  req,              \* the /sns requests being handled
  bucket,           \* the S3 bucket: the log file each URL names
  jobs,             \* history: one entry per Task ever created by sns()
  planned           \* history: creation records received so far

vars == <<ONLY_ERRORS, MAX_TRIES, LOGGLY_MAX_SIZE, q, worker_thread, thr, req,
          bucket, jobs, planned>>

config == <<ONLY_ERRORS, MAX_TRIES, LOGGLY_MAX_SIZE, bucket>>

ThreadIds == 1..MaxRequests
ReqIds == 1..MaxRequests

Task(url, not_before, tries, job) ==
  [url |-> url, not_before |-> not_before, tries |-> tries, job |-> job]

NoThread ==
  [st |-> "none", job |-> 0, url |-> "", not_before |-> 0, tries |-> 0,
   rows |-> <<>>, output |-> <<>>, size |-> 0, wake |-> 0,
   ran |-> "no", exc |-> "none", status |-> -1,
   calls |-> <<>>]

\* records: those of message['Records'] not yet looked at; want and put:
\* history (the locations of the creation records received, and those put
\* on the queue)
NoRequest == [st |-> "idle", records |-> <<>>, want |-> <<>>, put |-> <<>>]

Init ==
  /\ ONLY_ERRORS \in BOOLEAN
  /\ MAX_TRIES \in {IntV(DefaultMaxTries), StrV(<<"3">>)}
  /\ LOGGLY_MAX_SIZE = DefaultMaxSize
  /\ bucket = [u \in URLs |-> FileOf(u)]
  /\ q = <<>>
  /\ worker_thread = 0
  /\ thr = [w \in ThreadIds |-> NoThread]
  /\ req = [r \in ReqIds |-> NoRequest]
  /\ jobs = <<>>
  /\ planned = 0

(***************************************************************************)
(* sns(): a POST of type Notification.                                     *)
(***************************************************************************)
\* lines 218-221 and 244-249: the message is decoded; one without 'Records'
\* is logged and answered
SnsReceive(r) ==
  /\ req[r].st = "idle"
  /\ \A r2 \in ReqIds : r2 < r => req[r2].st # "idle"
  /\ \E has \in BOOLEAN, p \in Payloads :
       /\ has \/ p = <<>>
       /\ r + planned + Len(Creations(p)) <= MaxLoad
       /\ planned' = planned + Len(Creations(p))
       /\ req' = [req EXCEPT ![r] =
                    [NoRequest EXCEPT !.st = IF has THEN "records" ELSE "return",
                                      !.records = p,
                                      !.want = Creations(p)]]
  /\ UNCHANGED <<config, q, worker_thread, thr, jobs>>

\* lines 222-239: one pass of the loop over message['Records']
SnsRecord(r) ==
  /\ req[r].st = "records"
  /\ req[r].records # <<>>
  /\ LET record == Head(req[r].records) IN
       IF IsCreation(record)
       THEN IF LocationRaises(record)
            THEN /\ req' = [req EXCEPT ![r].st = "error", ![r].records = <<>>]
                 /\ UNCHANGED <<q, jobs>>
            ELSE /\ q' = Append(q, Task(record.key, now, 0, Len(jobs) + 1))
                 /\ jobs' = Append(jobs, [url |-> record.key, execs |-> 0,
                                          succ |-> 0, sent |-> {},
                                          resent |-> FALSE, fate |-> "live"])
                 /\ req' = [req EXCEPT ![r].records = Tail(@),
                                       ![r].put = Append(@, record.key)]
       ELSE /\ req' = [req EXCEPT ![r].records = Tail(@)]
            /\ UNCHANGED <<q, jobs>>
  /\ UNCHANGED <<config, worker_thread, thr, planned>>

\* line 240: if not worker_thread or not worker_thread.is_alive()
WorkerMissing ==
  \/ worker_thread = 0
  \/ thr[worker_thread].st \in {"new", "dead"}

SnsCheck(r) ==
  /\ req[r].st = "records"
  /\ req[r].records = <<>>
  /\ req' = [req EXCEPT ![r].st = IF WorkerMissing THEN "create" ELSE "return"]
  /\ UNCHANGED <<config, q, worker_thread, thr, jobs, planned>>

\* line 241: worker_thread = threading.Thread(target=worker)
SnsCreate(r) ==
  /\ req[r].st = "create"
  /\ \E w \in ThreadIds :
       /\ thr[w].st = "none"
       /\ \A w2 \in ThreadIds : w2 < w => thr[w2].st # "none"
       /\ thr' = [thr EXCEPT ![w].st = "new"]
       /\ worker_thread' = w
  /\ req' = [req EXCEPT ![r].st = "daemon"]
  /\ UNCHANGED <<config, q, jobs, planned>>

\* line 242: worker_thread.daemon = True raises RuntimeError for a Thread
\* that was started
SnsDaemon(r) ==
  /\ req[r].st = "daemon"
  /\ req' = [req EXCEPT ![r].st =
               IF thr[worker_thread].st = "new" THEN "start" ELSE "error"]
  /\ UNCHANGED <<config, q, worker_thread, thr, jobs, planned>>

\* line 243: worker_thread.start() raises RuntimeError for a Thread that
\* was started
SnsStart(r) ==
  /\ req[r].st = "start"
  /\ IF thr[worker_thread].st = "new"
     THEN /\ thr' = [thr EXCEPT ![worker_thread].st = "get"]
          /\ req' = [req EXCEPT ![r].st = "return"]
     ELSE /\ req' = [req EXCEPT ![r].st = "error"]
          /\ UNCHANGED thr
  /\ UNCHANGED <<config, q, worker_thread, jobs, planned>>

\* line 251: return '', 200; an exception raised on the way is answered by
\* Flask with a 500
SnsReturn(r) ==
  /\ req[r].st \in {"return", "error"}
  /\ req' = [req EXCEPT ![r] = [NoRequest EXCEPT !.st = "done"]]
  /\ UNCHANGED <<config, q, worker_thread, thr, jobs, planned>>

Sns(r) ==
  \/ SnsReceive(r)
  \/ SnsRecord(r)
  \/ SnsCheck(r)
  \/ SnsCreate(r)
  \/ SnsDaemon(r)
  \/ SnsStart(r)
  \/ SnsReturn(r)

(***************************************************************************)
(* download_and_process(url), on the frame of the thread that runs it.     *)
(* rows is what the reader has still to yield; status and calls are        *)
(* history: the status of the GET's response and the upload_to_loggly      *)
(* calls made so far in this execution.  An exception unwinds the frame.   *)
(***************************************************************************)
Fresh(st) == [NoThread EXCEPT !.st = st]

Ids(lines) == [k \in 1..Len(lines) |-> lines[k].id]

SeqRange(f) == { f[k] : k \in 1..Len(f) }

Raised(f, exc) ==
  [f EXCEPT !.st = "except", !.exc = exc, !.rows = <<>>, !.output = <<>>,
            !.size = 0]

\* lines 134-138: the GET; the response's status is never read
Fetched(f, resp) ==
  IF resp.raised
  THEN [Raised(f, "get") EXCEPT !.status = 0]
  ELSE [f EXCEPT !.st = "loop", !.rows = resp.body, !.output = <<>>,
                 !.size = 0, !.status = resp.status]

\* Looped with the flush at size >= LOGGLY_MAX_SIZE
LoopedFlushAtCeiling(f, only_errors, max_size) ==
  IF f.rows = <<>>
  THEN [f EXCEPT !.st = IF f.output # <<>> THEN "final" ELSE "continue"]
  ELSE LET row == Head(f.rows)
           res == RowResult(only_errors, row)
           line == Render(ProcessRow(row))
       IN  CASE res = "append" ->
                  [f EXCEPT !.rows = Tail(@),
                            !.output = Append(@, line),
                            !.size = @ + line.len,
                            !.st = IF f.size + line.len >= max_size
                                   THEN "flush" ELSE "loop"]
             [] res = "skip" -> [f EXCEPT !.rows = Tail(@)]
             [] OTHER -> Raised(f, res)

\* lines 139-154 for the next row, and the end of the loop (line 158)
Looped(f, only_errors, max_size) ==
  IF f.rows = <<>>
  THEN [f EXCEPT !.st = IF f.output # <<>> THEN "final" ELSE "continue"]
  ELSE LET row == Head(f.rows)
           res == RowResult(only_errors, row)
           line == Render(ProcessRow(row))
       IN  CASE res = "append" ->
                  [f EXCEPT !.rows = Tail(@),
                            !.output = Append(@, line),
                            !.size = @ + line.len,
                            !.st = IF f.size + line.len > max_size
                                   THEN "flush" ELSE "loop"]
             [] res = "skip" -> [f EXCEPT !.rows = Tail(@)]
             [] OTHER -> Raised(f, res)

\* Uploaded without output = [] after the call
UploadedKeepsBuffer(f, resp, next) ==
  IF UploadOK(resp)
  THEN [f EXCEPT !.st = next, !.size = 0,
                 !.calls = Append(@, [ids |-> Ids(f.output), ok |-> TRUE,
                                       status |-> resp.status])]
  ELSE [Raised(f, "upload") EXCEPT
          !.calls = Append(@, [ids |-> Ids(f.output), ok |-> FALSE,
                               status |-> resp.status])]

\* upload_to_loggly(output) at lines 155-157 (next = "loop") and at line 159
\* (next = "continue")
Uploaded(f, resp, next) ==
  IF UploadOK(resp)
  THEN [f EXCEPT !.st = next, !.output = <<>>, !.size = 0,
                 !.calls = Append(@, [ids |-> Ids(f.output), ok |-> TRUE,
                                       status |-> resp.status])]
  ELSE [Raised(f, "upload") EXCEPT
          !.calls = Append(@, [ids |-> Ids(f.output), ok |-> FALSE,
                               status |-> resp.status])]

\* The whole call, from the response of the GET on: the n-th upload gets the
\* response posts[n].
RECURSIVE Processed(_, _, _, _)
Processed(f, posts, only_errors, max_size) ==
  CASE f.st = "loop" ->
         Processed(Looped(f, only_errors, max_size), posts, only_errors,
                   max_size)
    [] f.st = "flush" ->
         Processed(Uploaded(f, posts[Len(f.calls) + 1], "loop"), posts,
                   only_errors, max_size)
    [] f.st = "final" ->
         Processed(Uploaded(f, posts[Len(f.calls) + 1], "continue"), posts,
                   only_errors, max_size)
    [] OTHER -> f

\* the lines uploaded by the calls that returned
Delivered(calls) ==
  UNION { SeqRange(calls[k].ids) : k \in { x \in 1..Len(calls) : calls[x].ok } }

(***************************************************************************)
(* worker(): one thread's pass through the loop body.  q.task() pairs      *)
(* every q.get() with a q.task_done(); nothing joins the queue, so its     *)
(* count of unfinished tasks is left out.                                  *)
(***************************************************************************)
\* line 170-171: q.get() blocks while the queue is empty
WGet(w) ==
  /\ thr[w].st = "get"
  /\ q # <<>>
  /\ q' = Tail(q)
  /\ thr' = [thr EXCEPT ![w] =
               [Fresh("check") EXCEPT !.job = Head(q).job,
                                      !.url = Head(q).url,
                                      !.not_before = Head(q).not_before,
                                      !.tries = Head(q).tries]]
  /\ UNCHANGED <<config, worker_thread, req, jobs, planned>>

\* WCheck counting a job that is not yet due as a try
WCheckCountsSkip(w) ==
  /\ thr[w].st = "check"
  /\ IF thr[w].not_before <= now
     THEN /\ thr' = [thr EXCEPT ![w].st = "fetch", ![w].tries = @ + 1,
                                ![w].ran = "run"]
          /\ jobs' = [jobs EXCEPT ![thr[w].job].execs = @ + 1]
     ELSE /\ thr' = [thr EXCEPT ![w].st = "decide", ![w].tries = @ + 1,
                                ![w].ran = "skip"]
          /\ UNCHANGED jobs
  /\ UNCHANGED <<config, q, worker_thread, req, planned>>

\* lines 174-177
WCheck(w) ==
  /\ thr[w].st = "check"
  /\ IF thr[w].not_before <= now
     THEN /\ thr' = [thr EXCEPT ![w].st = "fetch", ![w].tries = @ + 1,
                                ![w].ran = "run"]
          /\ jobs' = [jobs EXCEPT ![thr[w].job].execs = @ + 1]
     ELSE /\ thr' = [thr EXCEPT ![w].st = "decide", ![w].ran = "skip"]
          /\ UNCHANGED jobs
  /\ UNCHANGED <<config, q, worker_thread, req, planned>>

\* the responses the uploads of one execution get: all 200, or all 200 up
\* to a call that raises or is answered otherwise
PostSequences(n) ==
  { [k \in 1..n |-> [raised |-> FALSE, status |-> CODES_OK]] } \cup
  { [k \in 1..n |-> IF k = bad THEN resp
                    ELSE [raised |-> FALSE, status |-> CODES_OK]] :
      bad \in 1..n, resp \in PostOutcomes }

\* line 178: download_and_process(url) runs to its return or its exception
WRun(w) ==
  /\ thr[w].st = "fetch"
  /\ \E resp \in GetOutcomes(bucket[thr[w].url]) :
     \E posts \in PostSequences(Len(resp.body) + 1) :
       thr' = [thr EXCEPT ![w] =
                 Processed(Fetched(@, resp), posts, ONLY_ERRORS,
                           LOGGLY_MAX_SIZE)]
  /\ UNCHANGED <<config, q, worker_thread, req, jobs, planned>>

\* download_and_process(url) step by step: line 134 ...
WFetch(w) ==
  /\ thr[w].st = "fetch"
  /\ \E resp \in GetOutcomes(bucket[thr[w].url]) :
       thr' = [thr EXCEPT ![w] = Fetched(@, resp)]
  /\ UNCHANGED <<config, q, worker_thread, req, jobs, planned>>

\* ... lines 139-154 and 158 ...
WLoop(w) ==
  /\ thr[w].st = "loop"
  /\ thr' = [thr EXCEPT ![w] = Looped(@, ONLY_ERRORS, LOGGLY_MAX_SIZE)]
  /\ UNCHANGED <<config, q, worker_thread, req, jobs, planned>>

\* ... lines 155-157 ...
WFlush(w) ==
  /\ thr[w].st = "flush"
  /\ \E resp \in PostOutcomes :
       thr' = [thr EXCEPT ![w] = Uploaded(@, resp, "loop")]
  /\ UNCHANGED <<config, q, worker_thread, req, jobs, planned>>

\* ... and line 159
WFinal(w) ==
  /\ thr[w].st = "final"
  /\ \E resp \in PostOutcomes :
       thr' = [thr EXCEPT ![w] = Uploaded(@, resp, "continue")]
  /\ UNCHANGED <<config, q, worker_thread, req, jobs, planned>>

\* the uploads that returned, for the job's history
Account(job, calls) ==
  [job EXCEPT !.sent = @ \cup Delivered(calls),
              !.resent = @ \/ (job.sent \cap Delivered(calls) # {})]

\* WContinue without the continue: the success falls through to line 190
WContinueFallsThrough(w) ==
  /\ thr[w].st = "continue"
  /\ thr' = [thr EXCEPT ![w].st = "decide", ![w].status = -1,
                        ![w].calls = <<>>]
  /\ jobs' = [jobs EXCEPT ![thr[w].job] =
                [Account(@, thr[w].calls) EXCEPT !.succ = @ + 1,
                                                 !.fate = "done"]]
  /\ UNCHANGED <<config, q, worker_thread, req, planned>>

\* line 179: continue leaves the with block and starts the next pass
WContinue(w) ==
  /\ thr[w].st = "continue"
  /\ thr' = [thr EXCEPT ![w] = Fresh("get")]
  /\ jobs' = [jobs EXCEPT ![thr[w].job] =
                [Account(@, thr[w].calls) EXCEPT !.succ = @ + 1,
                                                 !.fate = "done"]]
  /\ UNCHANGED <<config, q, worker_thread, req, planned>>

\* lines 180-189
WExcept(w) ==
  /\ thr[w].st = "except"
  /\ thr' = [thr EXCEPT ![w].st = "decide", ![w].ran = "fail",
                        ![w].status = -1,
                        ![w].calls = <<>>,
                        ![w].not_before = now + Backoff(thr[w].tries)]
  /\ jobs' = [jobs EXCEPT ![thr[w].job] = Account(@, thr[w].calls)]
  /\ UNCHANGED <<config, q, worker_thread, req, planned>>

\* lines 190-193; an exception here ends the thread
WDecide(w) ==
  /\ thr[w].st = "decide"
  /\ IF LimitRaises(MAX_TRIES)
     THEN /\ thr' = [thr EXCEPT ![w] = Fresh("dead")]
          /\ jobs' = [jobs EXCEPT ![thr[w].job].fate = "lost"]
          /\ UNCHANGED q
     ELSE IF Requeue(thr[w].tries, MAX_TRIES)
     THEN /\ q' = Append(q, Task(thr[w].url, thr[w].not_before, thr[w].tries,
                                 thr[w].job))
          /\ thr' = [thr EXCEPT ![w] = Fresh("sleep")]
          /\ UNCHANGED jobs
     ELSE /\ thr' = [thr EXCEPT ![w] = Fresh("sleep")]
          /\ jobs' = [jobs EXCEPT ![thr[w].job].fate = "abandoned"]
          /\ UNCHANGED q
  /\ UNCHANGED <<config, worker_thread, req, planned>>

\* line 194: time.sleep(10) begins ...
WSleep(w) ==
  /\ thr[w].st = "sleep"
  /\ thr' = [thr EXCEPT ![w].st = "asleep", ![w].wake = now + SLEEP_SECS]
  /\ UNCHANGED <<config, q, worker_thread, req, jobs, planned>>

\* ... and returns
WWake(w) ==
  /\ thr[w].st = "asleep"
  /\ now >= thr[w].wake
  /\ thr' = [thr EXCEPT ![w] = Fresh("get")]
  /\ UNCHANGED <<config, q, worker_thread, req, jobs, planned>>

Worker(w) ==
  \/ WGet(w)
  \/ WCheck(w)
  \/ WRun(w)
  \/ WContinue(w)
  \/ WExcept(w)
  \/ WDecide(w)
  \/ WSleep(w)
  \/ WWake(w)

(***************************************************************************)
(* Time passes, to the next instant at which something is due.  The time   *)
(* axis has its origin at the present instant (now), so the passing of d   *)
(* seconds moves every instant the state holds d seconds nearer; an        *)
(* instant that has passed is kept as now, since the program only ever     *)
(* asks of it whether it has passed.                                       *)
(***************************************************************************)
Instants ==
  { q[k].not_before : k \in 1..Len(q) }
  \cup { thr[w].not_before : w \in { x \in ThreadIds : thr[x].job # 0 } }
  \cup { thr[w].wake : w \in { x \in ThreadIds : thr[x].st = "asleep" } }

Later(t, d) == IF t - d <= now THEN now ELSE t - d

Tick ==
  /\ \E t \in Instants :
       /\ t > now
       /\ \A t2 \in Instants : t2 > now => t <= t2
       /\ q' = [k \in 1..Len(q) |->
                  [q[k] EXCEPT !.not_before = Later(@, t - now)]]
       /\ thr' = [w \in ThreadIds |->
                    [thr[w] EXCEPT !.not_before = Later(@, t - now),
                                   !.wake = Later(@, t - now)]]
  /\ UNCHANGED <<config, worker_thread, req, jobs, planned>>

Next ==
  \/ \E r \in ReqIds : Sns(r)
  \/ \E w \in ThreadIds : Worker(w)
  \/ Tick

Spec == Init /\ [][Next]_vars

(***************************************************************************)
(* One execution of download_and_process, step by step, on a drawn file:   *)
(* thread 1 has taken the task of u1 from the queue and is about to call   *)
(* download_and_process for the first time.                                *)
(***************************************************************************)
InitFile ==
  /\ ONLY_ERRORS \in BOOLEAN
  /\ MAX_TRIES = IntV(DefaultMaxTries)
  /\ LOGGLY_MAX_SIZE = DefaultMaxSize
  /\ \E f \in Files : bucket = [u \in URLs |-> f]
  /\ q = <<>>
  /\ worker_thread = 1
  /\ thr = [w \in ThreadIds |->
              IF w = 1
              THEN [Fresh("fetch") EXCEPT !.job = 1, !.url = "u1",
                                          !.tries = 1, !.ran = "run"]
              ELSE NoThread]
  /\ req = [r \in ReqIds |->
              IF r = 1 THEN [NoRequest EXCEPT !.st = "done"] ELSE NoRequest]
  /\ jobs = << [url |-> "u1", execs |-> 1, succ |-> 0, sent |-> {},
                resent |-> FALSE, fate |-> "live"] >>
  /\ planned = 1

NextFile ==
  \/ WFetch(1)
  \/ WLoop(1)
  \/ WFlush(1)
  \/ WFinal(1)

SpecFile == InitFile /\ [][NextFile]_vars

(***************************************************************************)
(* Properties.                                                             *)
(***************************************************************************)
JobIds == 1..Len(jobs)

InQueue(j) == \E k \in 1..Len(q) : q[k].job = j

Held(j) == \E w \in ThreadIds : thr[w].job = j

\* the retry limit the configuration states, as a number
Limit == PyInt(MAX_TRIES).n

\* C1: after a failed execution the worker reports the job abandoned
\* exactly when its tries exceed the retry limit and puts it back on the
\* queue otherwise; a job that was executed successfully is never reported
\* abandoned.
C1_AbandonIffExceeded ==
  /\ [][\A w \in ThreadIds :
          (thr[w].st = "decide" /\ thr[w].ran = "fail" /\ thr'[w].st # "decide")
          => LET j == thr[w].job IN
               /\ (jobs'[j].fate = "abandoned") <=> (thr[w].tries > Limit)
               /\ (thr[w].tries <= Limit) =>
                    q' = Append(q, Task(thr[w].url, thr[w].not_before,
                                        thr[w].tries, j))
               /\ (thr[w].tries > Limit) => q' = q]_vars
  /\ [](\A j \in JobIds : jobs[j].fate = "abandoned" => jobs[j].succ = 0)

\* C2: a job whose a-th execution fails, a in 1..MAX_TRIES, gets
\* not_before = (the time of the failure) + 2^a seconds and is put back on
\* the queue with it.
C2_BackoffIsTwoToTheTries ==
  /\ [][\A w \in ThreadIds :
          (thr[w].st = "except" /\ thr'[w].st = "decide")
          => /\ thr'[w].tries = thr[w].tries
             /\ thr'[w].not_before = now + 2 ^ thr[w].tries]_vars
  /\ [][\A w \in ThreadIds :
          (/\ thr[w].st = "decide" /\ thr[w].ran = "fail"
           /\ thr[w].tries \in 1..Limit /\ thr'[w].st # "decide")
          => q' = Append(q, Task(thr[w].url, thr[w].not_before,
                                 thr[w].tries, thr[w].job))]_vars

\* C3: a job whose execution succeeded is discarded: it is not on the queue,
\* no worker holds it and it is not executed again.
C3_SuccessDiscards ==
  /\ [](\A j \in JobIds :
          jobs[j].fate = "done" =>
            /\ ~ InQueue(j)
            /\ ~ Held(j)
            /\ jobs[j].succ = 1)
  /\ [][\A j \in JobIds :
          jobs[j].fate = "done" =>
            /\ jobs'[j].fate = "done"
            /\ jobs'[j].execs = jobs[j].execs]_vars

\* a job was discarded by a success that followed a failed execution
C3_Witness ==
  \E j \in JobIds : jobs[j].fate = "done" /\ jobs[j].execs >= 2

\* C4: no job, failure or retry limit makes a worker thread end.
C4_WorkerNeverDies == \A w \in ThreadIds : thr[w].st # "dead"

Alive(w) == thr[w].st \notin {"none", "new", "dead"}

\* C5: at most one worker thread is draining the queue.
C5_SingleWorker == Cardinality({ w \in ThreadIds : Alive(w) }) <= 1

\* the rows of a file that render to a line
RenderedIds(file) ==
  { file[k].id : k \in { x \in 1..Len(file) :
                           RowResult(ONLY_ERRORS, file[x]) = "append" } }

\* C6: when a job has ended in success, every line its file renders to was
\* sent by an upload call that returned.
C6_AtLeastOnce ==
  \A j \in JobIds :
    jobs[j].fate = "done" => RenderedIds(bucket[jobs[j].url]) \subseteq jobs[j].sent

\* C7: when the handler is through with a payload it has put on the queue
\* one task for each creation record that names its object, in record
\* order, and nothing else.
C7_OneTaskPerCreation ==
  \A r \in ReqIds :
    req[r].st \in {"return", "error"} => req[r].put = req[r].want

GetFailed(status) == status = 0 \/ (status > 0 /\ status \notin 200..299)

\* C8: an execution whose GET raised or was answered with a status that is
\* not 2xx uploads nothing and does not end in success.
C8_FailedFetchFails ==
  \A w \in ThreadIds :
    GetFailed(thr[w].status) => thr[w].st # "continue" /\ thr[w].calls = <<>>

CoercedFields ==
  {"elb_status_code", "backend_status_code", "received_bytes", "sent_bytes"}

\* a row with a field int() does not take, and nothing else wrong with it
OnlyUnconvertible(row) ==
  /\ \E field \in CoercedFields : IntRaises(row[field])
  /\ ~ UnpackRaises(row.client, ":", 2)
  /\ ~ UnpackRaises(row.request, " ", 3)
  /\ row.timestamp_ok

\* C9: a row whose status or byte-count field does not convert to an
\* integer does not abort the file, and the line it renders to holds the
\* field's original string; under either setting of ONLY_ERRORS.
C9_CoercionNeverAborts ==
  [][\A w \in ThreadIds :
       (/\ thr[w].st = "loop" /\ thr[w].rows # <<>>
        /\ OnlyUnconvertible(Head(thr[w].rows))
        /\ thr'[w] # thr[w])
       => /\ thr'[w].st # "except"
          /\ Len(thr'[w].output) > Len(thr[w].output) =>
               \A field \in CoercedFields :
                 IntRaises(Head(thr[w].rows)[field]) =>
                   thr'[w].output[Len(thr'[w].output)][field]
                     = Head(thr[w].rows)[field]]_vars

RECURSIVE SumLen(_)
SumLen(lines) ==
  IF lines = <<>> THEN 0 ELSE Head(lines).len + SumLen(Tail(lines))

\* C10: size is the accumulated length of the buffered lines; appending a
\* line is followed by an upload exactly when size then exceeds the
\* ceiling, and nothing else is; an upload that returns leaves the buffer
\* empty and size zero; at the end of the file one more upload is made
\* exactly when the buffer is not empty.
C10_FlushIffOver ==
  /\ [](\A w \in ThreadIds :
          thr[w].st \in {"loop", "flush", "final"} =>
            thr[w].size = SumLen(thr[w].output))
  /\ [][\A w \in ThreadIds :
          (thr[w].st = "loop" /\ thr'[w] # thr[w])
          => /\ Len(thr'[w].output) > Len(thr[w].output) =>
                  ((thr'[w].st = "flush")
                     <=> (SumLen(thr'[w].output) > LOGGLY_MAX_SIZE))
             /\ Len(thr'[w].output) <= Len(thr[w].output) =>
                  thr'[w].st # "flush"
             /\ thr[w].rows = <<>> =>
                  /\ thr'[w].st \in {"final", "continue"}
                  /\ (thr'[w].st = "final") <=> (thr[w].output # <<>>)
             /\ thr[w].rows # <<>> => thr'[w].st # "final"]_vars
  /\ [][\A w \in ThreadIds :
          (thr[w].st = "flush" /\ thr'[w].st = "loop")
          => thr'[w].output = <<>> /\ thr'[w].size = 0]_vars
  /\ [][\A w \in ThreadIds :
          thr[w].st = "final" => thr'[w].st \in {"final", "continue", "except"}]_vars

\* a file was processed to its end with a flush after which more lines
\* were buffered and uploaded at the end of the file
C10_Witness ==
  \E w \in ThreadIds :
    /\ thr[w].st = "continue"
    /\ Len(thr[w].calls) = 2
    /\ SumLen(thr[w].output) = 0

\* a file every row of which has a client with a port, a three-part
\* request, a timestamp and a numeric load-balancer status
WellFormed(file) ==
  \A k \in 1..Len(file) :
    /\ ~ UnpackRaises(file[k].client, ":", 2)
    /\ ~ UnpackRaises(file[k].request, " ", 3)
    /\ file[k].timestamp_ok
    /\ ~ IntRaises(file[k].elb_status_code)

\* the rows a line is due for, in file order: all of them, or with the
\* errors-only filter those with a status of 500 or more
RECURSIVE Expected(_, _)
Expected(only_errors, rows) ==
  IF rows = <<>> THEN <<>>
  ELSE (IF only_errors => PyInt(Head(rows).elb_status_code).n >= 500
        THEN <<Head(rows).id>> ELSE <<>>)
       \o Expected(only_errors, Tail(rows))

\* the lines handed to the upload calls so far, in call order
RECURSIVE SentIds(_)
SentIds(calls) ==
  IF calls = <<>> THEN <<>> ELSE Head(calls).ids \o SentIds(Tail(calls))

\* the rows of the file the reader has yielded so far
Consumed(w) ==
  SubSeq(bucket[thr[w].url], 1, Len(bucket[thr[w].url]) - Len(thr[w].rows))

\* C11: while a well-formed file is processed, the lines rendered so far
\* (uploaded or buffered) are, in row order, one per row read without the
\* errors-only filter, and with it one per row read whose load-balancer
\* status is 500 or more.
C11_OneLinePerRow ==
  \A w \in ThreadIds :
    (/\ thr[w].st \in {"loop", "flush", "final", "continue"}
     /\ thr[w].status = 200
     /\ WellFormed(bucket[thr[w].url]))
    => SentIds(thr[w].calls) \o Ids(thr[w].output)
         = Expected(ONLY_ERRORS, Consumed(w))

\* a well-formed file with rows on both sides of the filter was processed
\* to its end with the filter on
C11_Witness ==
  \E w \in ThreadIds :
    /\ thr[w].st = "continue" /\ thr[w].status = 200
    /\ ONLY_ERRORS
    /\ WellFormed(bucket[thr[w].url])
    /\ Len(bucket[thr[w].url]) = 3
    /\ Len(SentIds(thr[w].calls)) = 2
    /\ \E k \in 1..3 : bucket[thr[w].url][k].elb_status_code = S500

\* C12: an upload call answered with a success status (2xx) returns, and
\* one answered with any other status raises and fails the attempt.
C12_UploadSucceedsOnSuccessStatus ==
  \A w \in ThreadIds :
    \A k \in 1..Len(thr[w].calls) :
      LET call == thr[w].calls[k] IN
        /\ call.status \in 200..299 => call.ok
        /\ (call.status # 0 /\ call.status \notin 200..299) =>
             ~ call.ok /\ thr[w].st = "except"

\* C13: a worker that takes a job whose not_before is still ahead does not
\* execute it and puts it back at the tail of the queue with url, tries and
\* not_before as they were; an execution starts only when not_before has
\* passed.
C13_NotDueIsPutBack ==
  /\ [][\A w \in ThreadIds :
          (thr[w].st = "check" /\ thr'[w].st # "check" /\ thr[w].not_before > now)
          => /\ thr'[w].st = "decide" /\ thr'[w].ran = "skip"
             /\ thr'[w].url = thr[w].url
             /\ thr'[w].tries = thr[w].tries
             /\ thr'[w].not_before = thr[w].not_before
             /\ jobs' = jobs]_vars
  /\ [][\A w \in ThreadIds :
          (thr[w].st = "decide" /\ thr[w].ran = "skip" /\ thr'[w].st # "decide")
          => q' = Append(q, Task(thr[w].url, thr[w].not_before,
                                 thr[w].tries, thr[w].job))]_vars
  /\ [][\A w \in ThreadIds :
          (thr[w].st = "check" /\ thr'[w].st = "fetch")
          => thr[w].not_before <= now]_vars

\* the only worker there is took a job that had failed before and was not
\* yet due, and left it unexecuted
C13_Witness ==
  \E w \in ThreadIds :
    /\ thr[w].st = "decide" /\ thr[w].ran = "skip"
    /\ thr[w].tries >= 1 /\ thr[w].not_before > now
    /\ \A w2 \in ThreadIds \ {w} : thr[w2].st = "none"

\* C14: a worker's iteration, whatever its outcome (success, failure,
\* skip, abandonment), is followed by the pause of SLEEP_SECS seconds, and
\* only after it does the worker take the next job.
C14_PauseAfterEveryIteration ==
  /\ [][\A w \in ThreadIds :
          (thr[w].st \in {"continue", "decide"} /\ thr'[w].st # thr[w].st)
          => thr'[w].st = "sleep"]_vars
  /\ [][\A w \in ThreadIds :
          (thr[w].st = "sleep" /\ thr'[w].st # "sleep")
          => thr'[w].st = "asleep" /\ thr'[w].wake = now + SLEEP_SECS]_vars
  /\ [][\A w \in ThreadIds :
          (thr[w].st = "asleep" /\ thr'[w].st # "asleep")
          => thr'[w].st = "get" /\ thr[w].wake <= now]_vars

\* C15: an upload call that fails is the last one of its execution, which
\* ends there in the exception; the worker counts the execution as failed,
\* computes the backoff, and the job is put back on the queue with it or
\* reported abandoned.
C15_UploadFailureAborts ==
  /\ [](\A w \in ThreadIds :
          \A k \in 1..Len(thr[w].calls) :
            ~ thr[w].calls[k].ok =>
              /\ k = Len(thr[w].calls)
              /\ thr[w].st = "except" /\ thr[w].exc = "upload")
  /\ [][\A w \in ThreadIds :
          (thr[w].st = "except" /\ thr[w].exc = "upload" /\ thr'[w].st # "except")
          => /\ thr'[w].st = "decide" /\ thr'[w].ran = "fail"
             /\ thr'[w].not_before = now + 2 ^ thr[w].tries]_vars
  /\ [][\A w \in ThreadIds :
          (thr[w].st = "decide" /\ thr[w].exc = "upload" /\ thr'[w].st # "decide")
          => \/ q' = Append(q, Task(thr[w].url, thr[w].not_before,
                                    thr[w].tries, thr[w].job))
             \/ jobs'[thr[w].job].fate = "abandoned"]_vars

\* C16: when a handler that put at least one job on the queue is through
\* with its notification, a live worker thread exists.
C16_WorkerStartedAfterIntake ==
  \A r \in ReqIds :
    (req[r].st \in {"return", "error"} /\ req[r].put # <<>>)
    => \E w \in ThreadIds : Alive(w)

\* the places a job is in: its entries in the queue and the workers
\* holding it
Places(j) ==
  Cardinality({ k \in 1..Len(q) : q[k].job = j })
    + Cardinality({ w \in ThreadIds : thr[w].job = j })

\* C17: a job that was put on the queue and has been neither discarded
\* after a success nor abandoned is in exactly one place: once in the queue
\* or held by one worker.
C17_ExactlyOnePlace ==
  \A j \in JobIds :
    jobs[j].fate \notin {"done", "abandoned"} => Places(j) = 1

(***************************************************************************)
(* Scheduling.  A thread that can take a step takes one: each worker       *)
(* thread and each handler that has received its notification runs on;     *)
(* time passes.  Whether a further notification arrives is up to the       *)
(* sender.                                                                 *)
(***************************************************************************)
SnsProceeds(r) ==
  \/ SnsRecord(r)
  \/ SnsCheck(r)
  \/ SnsCreate(r)
  \/ SnsDaemon(r)
  \/ SnsStart(r)
  \/ SnsReturn(r)

\* a worker's steps other than the call of download_and_process
WorkerProceeds(w) ==
  \/ WGet(w)
  \/ WCheck(w)
  \/ WContinue(w)
  \/ WExcept(w)
  \/ WDecide(w)
  \/ WSleep(w)
  \/ WWake(w)

\* download_and_process, once called, returns or raises (both requests
\* have a timeout of 5 seconds): no thread stays in the call for ever
Fairness ==
  /\ \A w \in ThreadIds : WF_vars(WorkerProceeds(w))
  /\ \A w \in ThreadIds : []<>(thr[w].st # "fetch")
  /\ \A r \in ReqIds : WF_vars(SnsProceeds(r))
  /\ WF_vars(Tick)

SpecLive == Init /\ [][Next]_vars /\ Fairness

\* C18: if from some time on a worker thread is alive, every job put on
\* the queue is eventually discarded after a success or abandoned.
C18_EveryJobEnds ==
  \A j \in 1..MaxLoad :
    (<>[](\E w \in ThreadIds : Alive(w)))
    => [](j \in JobIds =>
            <>(j \in JobIds /\ jobs[j].fate \in {"done", "abandoned"}))

\* C19: the tries a job's task carries, in the queue or in a worker's
\* hands, are the executions of download_and_process made for the job so
\* far; one step adds at most one execution; and no job is executed more
\* than MAX_TRIES + 1 times.
C19_TriesCountExecutions ==
  /\ [](\A k \in 1..Len(q) : q[k].tries = jobs[q[k].job].execs)
  /\ [](\A w \in ThreadIds :
          thr[w].job # 0 => thr[w].tries = jobs[thr[w].job].execs)
  /\ [](\A j \in JobIds : jobs[j].execs <= Limit + 1)
  /\ [][\A j \in JobIds :
          jobs'[j].execs \in {jobs[j].execs, jobs[j].execs + 1}]_vars

\* a job was executed MAX_TRIES + 1 times and then abandoned
C19_Witness ==
  \E j \in JobIds :
    /\ jobs[j].execs = Limit + 1
    /\ jobs[j].fate = "abandoned"

\* the rows of a file that render to a line, in file order
RECURSIVE RenderedSeq(_, _)
RenderedSeq(only_errors, rows) ==
  IF rows = <<>> THEN <<>>
  ELSE (IF RowResult(only_errors, Head(rows)) = "append"
        THEN <<Head(rows).id>> ELSE <<>>)
       \o RenderedSeq(only_errors, Tail(rows))

NoEmptyBatch(w) ==
  \A k \in 1..Len(thr[w].calls) : thr[w].calls[k].ids # <<>>

\* C20 as stated: in an execution of a fetched file in which no upload
\* call fails, every line rendered is handed to an upload call: one that
\* returns has handed over, in order, the lines the file renders to, one
\* that a row ends leaves no rendered line in the buffer; and no batch is
\* empty.
C20_BatchesAreTheLines ==
  /\ [](\A w \in ThreadIds :
          /\ (thr[w].st = "continue" /\ thr[w].status = 200)
               => SentIds(thr[w].calls)
                    = RenderedSeq(ONLY_ERRORS, bucket[thr[w].url])
          /\ NoEmptyBatch(w))
  /\ [][\A w \in ThreadIds :
          (thr[w].st = "loop" /\ thr[w].status = 200 /\ thr'[w].st = "except")
          => thr[w].output = <<>>]_vars

\* C20 amended: when an execution of a fetched file has returned (no
\* upload failed and no row raised), the batches of its upload calls,
\* concatenated in call order, are the lines the file renders to; while it
\* runs, the batches so far and the buffer are the lines of the rows read so
\* far; and no upload call is ever handed an empty batch.
C20_BatchesAreTheLinesOnReturn ==
  \A w \in ThreadIds :
    /\ (thr[w].st = "continue" /\ thr[w].status = 200)
         => SentIds(thr[w].calls)
              = RenderedSeq(ONLY_ERRORS, bucket[thr[w].url])
    /\ (thr[w].st \in {"loop", "flush", "final"} /\ thr[w].status = 200)
         => SentIds(thr[w].calls) \o Ids(thr[w].output)
              = RenderedSeq(ONLY_ERRORS, Consumed(w))
    /\ NoEmptyBatch(w)

\* an execution returned after two upload calls that carried three lines
C20_Witness ==
  \E w \in ThreadIds :
    /\ thr[w].st = "continue" /\ thr[w].status = 200
    /\ Len(thr[w].calls) = 2
    /\ Len(SentIds(thr[w].calls)) = 3

====
